---- MODULE Spec2Model ----
(***************************************************************************)
(* A state-machine model of azure-init:                                    *)
(*   - libazureinit's Provision builder and Provision::provision()         *)
(*     (libazureinit/src/provision/mod.rs) with the user and password      *)
(*     backends (provision/user.rs, provision/password.rs);                *)
(*   - the agent binary (src/main.rs): get_username() with the             *)
(*     configuration-medium loop, provision() and main()'s exit code.      *)
(* Every call that leaves the repository's sources (external commands, the *)
(* metadata service, mount/unmount, the account database) takes its        *)
(* outcome from a small set, drawn with \E where the call is made.         *)
(***************************************************************************)
EXTENDS Naturals, Sequences, FiniteSets, TLC

VARIABLES
    pc,          \* position of the single thread of control
    req,         \* the Provision value being built / consumed (mod.rs 24-32)
    i,           \* position of find_map's iterator in the current backend list
    trace,       \* history: every operation performed so far, in order
    outcome,     \* the Result returned by provision(), once it has returned
    exit,        \* the process exit code, <<>> until main() has returned
    stderr,      \* what main() has written to the error stream
    imds_body,   \* main.rs provision(): the metadata document
    ovf_devices, \* get_username(): how many candidate devices were enumerated
    dev,         \* get_username(): the candidate the loop is at (1-based)
    parsed,      \* mount_parse_ovf_env(): the Environment parsed, not yet returned
    environment, \* get_username(): Option<Environment>
    mounted,     \* the candidates currently mounted on the mount point
    username,    \* main.rs provision(): the resolved admin username
    vm_goalstate,\* main.rs provision(): the goal state fetched
    user_cfg,    \* user.rs: the User value being configured
    debug_out    \* user.rs: what Debug has rendered, each with the User it rendered

libVars == <<req, i>>
userVars == <<user_cfg, debug_out>>
mainVars == <<imds_body, ovf_devices, dev, parsed, environment, mounted,
              username, vm_goalstate>>
vars == <<pc, trace, outcome, exit, stderr, libVars, mainVars, userVars>>

----------------------------------------------------------------------------
(* Bounds of the model *)

\* longest backend list a caller hands to a *_provisioners() method
MaxBackends == 2
\* most candidate devices media::get_mount_device() returns
MaxDevices == 2
\* most context layers wrapped around a root cause handed to main()
MaxContext == 2
\* most times one User value is rendered with Debug
MaxDebug == 2

----------------------------------------------------------------------------
(* Values *)

\* Option<T>: None, Some(v)
None == [some |-> FALSE, v |-> <<>>]
Some(x) == [some |-> TRUE, v |-> x]

Usernames == {"my-user"}
Hostnames == {"my-hostname"}
\* Vec<PublicKeys>: no key, one key
KeyLists == {<<>>, <<"ssh-rsa AAAA">>}
\* the strings handed to Provision::password(): the empty one and a non-empty one
Passwords == {"", "password"}

\* how an external command ends: exit status 0, a non-zero exit status, or
\* Command::status() failing to run it at all
CommandStatuses == {"exit0", "exit1", "spawn_error"}

\* the variants of the three Provisioner enums, in declaration order
\* (#[derive(strum::EnumIter)]: iter() yields them in this order)
UserProvisioners == <<"Useradd", "FakeUseradd">>
PasswordProvisioners == <<"Passwd", "FakePasswd">>
HostnameProvisioners == <<"Hostnamectl", "FakeHostnamectl">>

Range(s) == {s[k] : k \in 1..Len(s)}
BackendLists(S) == UNION {[1..n -> S] : n \in 0..MaxBackends}

\* the result of one backend call: err = "" is Ok(()), cmd is the external
\* command the call ran ("" when it ran none)
Ok == ""
BackendResult(err, cmd) == [err |-> err, cmd |-> cmd]

\* one entry of the history
Event(op, idx, name, arg, r) ==
    [op |-> op, idx |-> idx, name |-> name, arg |-> arg, cmd |-> r.cmd, err |-> r.err]

\* an error value as main() sees it: the chain of anyhow contexts, outermost
\* first, ending in the root cause; lib says whether a layer is a
\* libazureinit::error::Error
LibErr(kind, user) == [lib |-> TRUE, kind |-> kind, user |-> user]
OtherErr(kind) == [lib |-> FALSE, kind |-> kind, user |-> ""]

Running == [done |-> FALSE, ok |-> FALSE, err |-> <<>>]
ReturnOk == [done |-> TRUE, ok |-> TRUE, err |-> <<>>]
ReturnErr(chain) == [done |-> TRUE, ok |-> FALSE, err |-> chain]

----------------------------------------------------------------------------
(* libazureinit/src/provision/user.rs *)

\* useradd(): run the command, SubprocessFailed on a non-zero status
useradd(st) ==
    IF st = "spawn_error" THEN BackendResult("Io", "useradd")
    ELSE IF st # "exit0" THEN BackendResult("SubprocessFailed", "useradd")
    ELSE BackendResult(Ok, "useradd")

\* user::Provisioner::create
create(backend, st) ==
    IF backend = "Useradd" THEN useradd(st) ELSE BackendResult(Ok, "")

\* the User value before User::new
NoUser == [name |-> "", groups |-> <<>>, ssh_keys |-> <<>>, password |-> None]

GroupLists == {<<"wheel">>, <<"adm", "sudo">>}
\* the passwords handed to User::with_password
UserPasswords == {"", "password", "hunter2"}

\* User::new: the default group, no password
UserNew(name, ssh_keys) ==
    /\ pc = "start"
    /\ user_cfg' = [name |-> name, groups |-> <<"wheel">>, ssh_keys |-> ssh_keys,
                    password |-> None]
    /\ pc' = "user_built"
    /\ UNCHANGED <<trace, outcome, exit, stderr, libVars, mainVars, debug_out>>

\* User::with_password
with_password(p) ==
    /\ pc = "user_built"
    /\ user_cfg' = [user_cfg EXCEPT !.password = Some(p)]
    /\ UNCHANGED <<pc, trace, outcome, exit, stderr, libVars, mainVars, debug_out>>

\* User::with_groups (it also prints the groups, and nothing else, to stdout)
with_groups(groups) ==
    /\ pc = "user_built"
    /\ user_cfg' = [user_cfg EXCEPT !.groups = groups]
    /\ UNCHANGED <<pc, trace, outcome, exit, stderr, libVars, mainVars, debug_out>>

\* bool's Debug
debug_bool(b) == IF b THEN "true" ELSE "false"

\* mutant: the password field is rendered as #[derive(Debug)] would render it
M_fmt_derived(u) ==
    [struct |-> "User", name |-> u.name, groups |-> u.groups,
     ssh_keys |-> u.ssh_keys,
     password |-> IF u.password.some THEN u.password.v ELSE "None"]

\* impl Debug for User: debug_struct("User") with the four fields, the
\* password field being self.password.is_some()
fmt(u) ==
    [struct |-> "User", name |-> u.name, groups |-> u.groups,
     ssh_keys |-> u.ssh_keys, password |-> debug_bool(u.password.some)]

\* a `{:?}` of the User value
DebugUser ==
    /\ pc = "user_built"
    /\ Len(debug_out) < MaxDebug
    /\ debug_out' = Append(debug_out, [of |-> user_cfg, text |-> fmt(user_cfg)])
    /\ UNCHANGED <<pc, trace, outcome, exit, stderr, libVars, mainVars, user_cfg>>

----------------------------------------------------------------------------
(* libazureinit/src/provision/password.rs *)

\* mutant: the password is not validated, the command runs for any password
M_passwd_no_validation(password, st) ==
    IF st = "spawn_error" THEN BackendResult("Io", "passwd")
    ELSE IF st # "exit0" THEN BackendResult("SubprocessFailed", "passwd")
    ELSE BackendResult(Ok, "passwd")

\* passwd(): only the empty password is accepted, and then `passwd -d` runs
passwd(password, st) ==
    IF password = ""
    THEN IF st = "spawn_error" THEN BackendResult("Io", "passwd")
         ELSE IF st # "exit0" THEN BackendResult("SubprocessFailed", "passwd")
         ELSE BackendResult(Ok, "passwd")
    ELSE BackendResult("NonEmptyPassword", "")

\* mutant: the FakePasswd backend validates the password as passwd() does
M_set_password_fake_validates(backend, password, st) ==
    IF backend = "Passwd" THEN passwd(password, st)
    ELSE IF password = "" THEN BackendResult(Ok, "")
    ELSE BackendResult("NonEmptyPassword", "")

\* password::Provisioner::set
set_password(backend, password, st) ==
    IF backend = "Passwd" THEN passwd(password, st) ELSE BackendResult(Ok, "")

----------------------------------------------------------------------------
(* hostname::Provisioner (libazureinit/src/provision/hostname.rs) *)

hostnamectl(st) ==
    IF st = "spawn_error" THEN BackendResult("Io", "hostnamectl")
    ELSE IF st # "exit0" THEN BackendResult("SubprocessFailed", "hostnamectl")
    ELSE BackendResult(Ok, "hostnamectl")

set_hostname(backend, st) ==
    IF backend = "Hostnamectl" THEN hostnamectl(st) ELSE BackendResult(Ok, "")

----------------------------------------------------------------------------
(* libazureinit/src/provision/mod.rs: the builder *)

\* #[derive(Default)] on Provision
DefaultProvision ==
    [hostname |-> "", username |-> "", keys |-> <<>>, password |-> None,
     hostname_backends |-> None, user_backends |-> None, password_backends |-> None]

\* Provision::new
New(host, user, ssh_keys) ==
    /\ pc = "start"
    /\ req' = [DefaultProvision EXCEPT !.hostname = host,
                                       !.username = user,
                                       !.keys = ssh_keys]
    /\ pc' = "built"
    /\ UNCHANGED <<i, trace, outcome, exit, stderr, mainVars, userVars>>

\* Provision::hostname_provisioners
hostname_provisioners(backends) ==
    /\ pc = "built"
    /\ req' = [req EXCEPT !.hostname_backends = Some(backends)]
    /\ UNCHANGED <<pc, i, trace, outcome, exit, stderr, mainVars, userVars>>

\* Provision::user_provisioners
user_provisioners(backends) ==
    /\ pc = "built"
    /\ req' = [req EXCEPT !.user_backends = Some(backends)]
    /\ UNCHANGED <<pc, i, trace, outcome, exit, stderr, mainVars, userVars>>

\* Provision::password_provisioners
password_provisioners(backends) ==
    /\ pc = "built"
    /\ req' = [req EXCEPT !.password_backends = Some(backends)]
    /\ UNCHANGED <<pc, i, trace, outcome, exit, stderr, mainVars, userVars>>

\* Provision::password
password(p) ==
    /\ pc = "built"
    /\ req' = [req EXCEPT !.password = Some(p)]
    /\ UNCHANGED <<pc, i, trace, outcome, exit, stderr, mainVars, userVars>>

----------------------------------------------------------------------------
(* libazureinit/src/provision/mod.rs: Provision::provision *)

\* mutant: the caller's list is ignored and the default enumeration always used
M_unwrap_ignores_list(backends, default) == default

\* mutant: an empty list given by the caller is taken as no list given
M_unwrap_empty_is_default(backends, default) ==
    IF backends.some /\ backends.v # <<>> THEN backends.v ELSE default

\* Option<Vec<..>>::unwrap_or_else(|| Provisioner::iter().collect())
unwrap_or_else(backends, default) ==
    IF backends.some THEN backends.v ELSE default

\* self.password.as_deref().unwrap_or("")
password_or_empty(p) == IF p.some THEN p.v ELSE ""

\* what follows the password step: `if !self.keys.is_empty()`
after_password(keys) == IF keys # <<>> THEN "from_name" ELSE "hostname"

\* provision(self): the request is consumed, the user list is iterated first
ProvisionEnter ==
    /\ pc = "built"
    /\ pc' = "user"
    /\ i' = 1
    /\ UNCHANGED <<req, trace, outcome, exit, stderr, mainVars, userVars>>

\* mutant: with no password on the request the password step is skipped
M_UserAttempt_skips_unset_password ==
    /\ pc = "user"
    /\ LET l == unwrap_or_else(req.user_backends, UserProvisioners) IN
        /\ i <= Len(l)
        /\ \E st \in CommandStatuses :
            LET r == create(l[i], st) IN
            /\ trace' = Append(trace, Event("user", i, l[i], req.username, r))
            /\ IF r.err = Ok
               THEN /\ pc' = IF req.password.some THEN "password"
                             ELSE after_password(req.keys)
                    /\ i' = 1
               ELSE pc' = "user" /\ i' = i + 1
    /\ UNCHANGED <<req, outcome, exit, stderr, mainVars, userVars>>

\* one turn of find_map over the user backends (mod.rs 97-113)
UserAttempt ==
    /\ pc = "user"
    /\ LET l == unwrap_or_else(req.user_backends, UserProvisioners) IN
        /\ i <= Len(l)
        /\ \E st \in CommandStatuses :
            LET r == create(l[i], st) IN
            /\ trace' = Append(trace, Event("user", i, l[i], req.username, r))
            /\ IF r.err = Ok
               THEN pc' = "password" /\ i' = 1
               ELSE pc' = "user" /\ i' = i + 1
    /\ UNCHANGED <<req, outcome, exit, stderr, mainVars, userVars>>

\* mutant: the exhausted user list does not end the run, the password step follows
M_UserExhausted_falls_through ==
    /\ pc = "user"
    /\ i > Len(unwrap_or_else(req.user_backends, UserProvisioners))
    /\ pc' = "password"
    /\ i' = 1
    /\ UNCHANGED <<req, trace, outcome, exit, stderr, mainVars, userVars>>

\* find_map returned None: .ok_or(Error::NoUserProvisioner)? (mod.rs 114)
UserExhausted ==
    /\ pc = "user"
    /\ i > Len(unwrap_or_else(req.user_backends, UserProvisioners))
    /\ outcome' = ReturnErr(<<LibErr("NoUserProvisioner", "")>>)
    /\ pc' = "returned"
    /\ UNCHANGED <<req, i, trace, exit, stderr, mainVars, userVars>>

\* one turn of find_map over the password backends (mod.rs 116-132)
PasswordAttempt ==
    /\ pc = "password"
    /\ LET l == unwrap_or_else(req.password_backends, PasswordProvisioners)
           p == password_or_empty(req.password) IN
        /\ i <= Len(l)
        /\ \E st \in CommandStatuses :
            LET r == set_password(l[i], p, st) IN
            /\ trace' = Append(trace, Event("password", i, l[i], p, r))
            /\ IF r.err = Ok
               THEN pc' = after_password(req.keys) /\ i' = 1
               ELSE pc' = "password" /\ i' = i + 1
    /\ UNCHANGED <<req, outcome, exit, stderr, mainVars, userVars>>

\* mutant: the exhausted password list is reported with the user step's error
M_PasswordExhausted_wrong_error ==
    /\ pc = "password"
    /\ i > Len(unwrap_or_else(req.password_backends, PasswordProvisioners))
    /\ outcome' = ReturnErr(<<LibErr("NoUserProvisioner", "")>>)
    /\ pc' = "returned"
    /\ UNCHANGED <<req, i, trace, exit, stderr, mainVars, userVars>>

\* .ok_or(Error::NoPasswordProvisioner)? (mod.rs 133)
PasswordExhausted ==
    /\ pc = "password"
    /\ i > Len(unwrap_or_else(req.password_backends, PasswordProvisioners))
    /\ outcome' = ReturnErr(<<LibErr("NoPasswordProvisioner", "")>>)
    /\ pc' = "returned"
    /\ UNCHANGED <<req, i, trace, exit, stderr, mainVars, userVars>>

\* mutant: the missing account is swallowed, the hostname step follows
M_FromName_missing_ignored ==
    /\ pc = "from_name"
    /\ \E found \in {"errno", "missing", "found"} :
        LET err == IF found = "errno" THEN "Nix"
                   ELSE IF found = "missing" THEN "UserMissing" ELSE Ok IN
        /\ trace' = Append(trace, Event("from_name", 0, "", req.username,
                                        BackendResult(err, "")))
        /\ IF found = "found"
           THEN pc' = "provision_ssh" /\ outcome' = outcome
           ELSE IF found = "missing"
           THEN pc' = "hostname" /\ outcome' = outcome
           ELSE pc' = "returned" /\ outcome' = ReturnErr(<<LibErr(err, "")>>)
    /\ UNCHANGED <<req, i, exit, stderr, mainVars, userVars>>

\* nix::unistd::User::from_name(&self.username)?.ok_or(UserMissing)? (mod.rs 136-140)
\* the lookup ends in an errno, in Ok(None) or in Ok(Some(user))
FromName ==
    /\ pc = "from_name"
    /\ \E found \in {"errno", "missing", "found"} :
        LET err == IF found = "errno" THEN "Nix"
                   ELSE IF found = "missing" THEN "UserMissing" ELSE Ok IN
        /\ trace' = Append(trace, Event("from_name", 0, "", req.username,
                                        BackendResult(err, "")))
        /\ IF found = "found"
           THEN pc' = "provision_ssh" /\ outcome' = outcome
           ELSE /\ pc' = "returned"
                /\ outcome' = ReturnErr(<<LibErr(err,
                                  IF found = "missing" THEN req.username ELSE "")>>)
    /\ UNCHANGED <<req, i, exit, stderr, mainVars, userVars>>

\* ssh::provision_ssh(&user, &self.keys)? (mod.rs 141)
ProvisionSsh ==
    /\ pc = "provision_ssh"
    /\ \E ok \in BOOLEAN :
        /\ trace' = Append(trace, Event("provision_ssh", 0, "", req.username,
                                        BackendResult(IF ok THEN Ok ELSE "Io", "")))
        /\ IF ok
           THEN pc' = "hostname" /\ outcome' = outcome
           ELSE pc' = "returned" /\ outcome' = ReturnErr(<<LibErr("Io", "")>>)
    /\ UNCHANGED <<req, i, exit, stderr, mainVars, userVars>>

\* one turn of find_map over the hostname backends (mod.rs 144-160);
\* the last step: its success is provision()'s Ok(()) (mod.rs 163)
HostnameAttempt ==
    /\ pc = "hostname"
    /\ LET l == unwrap_or_else(req.hostname_backends, HostnameProvisioners) IN
        /\ i <= Len(l)
        /\ \E st \in CommandStatuses :
            LET r == set_hostname(l[i], st) IN
            /\ trace' = Append(trace, Event("hostname", i, l[i], req.hostname, r))
            /\ IF r.err = Ok
               THEN pc' = "returned" /\ i' = i /\ outcome' = ReturnOk
               ELSE pc' = "hostname" /\ i' = i + 1 /\ outcome' = outcome
    /\ UNCHANGED <<req, exit, stderr, mainVars, userVars>>

\* .ok_or(Error::NoHostnameProvisioner)? (mod.rs 161)
HostnameExhausted ==
    /\ pc = "hostname"
    /\ i > Len(unwrap_or_else(req.hostname_backends, HostnameProvisioners))
    /\ outcome' = ReturnErr(<<LibErr("NoHostnameProvisioner", "")>>)
    /\ pc' = "returned"
    /\ UNCHANGED <<req, i, trace, exit, stderr, mainVars, userVars>>

----------------------------------------------------------------------------
(* src/main.rs: values *)

\* media::Environment: the provisioning section's username and password
Environments ==
    {[username |-> "azureuser", password |-> ""],
     [username |-> "my-user", password |-> "password"]}

\* the metadata document: each field present or absent
NoBody ==
    [disablePasswordAuthentication |-> "absent", username |-> None,
     publicKeys |-> None, hostname |-> None]
ImdsBodies ==
    [disablePasswordAuthentication : {"true", "false", "absent"},
     username : {None, Some("azureuser")},
     publicKeys : {None} \cup {Some(k) : k \in KeyLists},
     hostname : {None, Some("vm-01")}]

GoalStates == {"incarnation-1", "incarnation-2"}

\* process exit codes: ExitCode::SUCCESS, exitcode::CONFIG, ExitCode::FAILURE
SUCCESS == 0
CONFIG == 78
FAILURE == 1

\* anyhow's with_context: one more layer around the error
with_context(ctx, chain) == <<OtherErr(ctx)>> \o chain

\* the errors a call outside the sources fails with
HttpErrors == {<<LibErr("HttpStatus", "")>>, <<OtherErr("reqwest::Error")>>}
AccountErrors == {<<LibErr("UserMissing", "azureuser")>>,
                  <<LibErr("UserMissing", "my-user")>>,
                  <<LibErr("Io", ""), OtherErr("std::io::Error")>>}

----------------------------------------------------------------------------
(* libazureinit::imds: the extraction functions main.rs calls *)

is_password_authentication_disabled(body) ==
    IF body.disablePasswordAuthentication = "absent"
    THEN [ok |-> FALSE, v |-> FALSE]
    ELSE [ok |-> TRUE, v |-> body.disablePasswordAuthentication = "true"]

imds_get_username(body) == body.username
imds_get_ssh_keys(body) == body.publicKeys
imds_get_hostname(body) == body.hostname

\* Distribution::create_user(username, password): the account is created and
\* the password step follows
create_user(pw, st1, st2) ==
    IF useradd(st1).err # Ok THEN useradd(st1) ELSE passwd(pw, st2)

----------------------------------------------------------------------------
(* src/main.rs: provision(), lines 88-97 *)

\* the header map and the reqwest client are built
BuildClient ==
    /\ pc = "start"
    /\ \E ok \in BOOLEAN :
        IF ok THEN pc' = "query_imds" /\ outcome' = outcome
        ELSE pc' = "returned" /\ outcome' = ReturnErr(<<OtherErr("reqwest::Error")>>)
    /\ UNCHANGED <<trace, exit, stderr, libVars, mainVars, userVars>>

\* imds::query_imds(&client).await?
QueryImds ==
    /\ pc = "query_imds"
    /\ \/ \E body \in ImdsBodies :
            /\ imds_body' = body
            /\ trace' = Append(trace, Event("query_imds", 0, "", "", BackendResult(Ok, "")))
            /\ pc' = "get_username"
            /\ outcome' = outcome
       \/ \E e \in HttpErrors :
            /\ imds_body' = imds_body
            /\ trace' = Append(trace, Event("query_imds", 0, "", "",
                                            BackendResult(e[Len(e)].kind, "")))
            /\ pc' = "returned"
            /\ outcome' = ReturnErr(e)
    /\ UNCHANGED <<exit, stderr, libVars, ovf_devices, dev, parsed, environment,
                   mounted, username, vm_goalstate, userVars>>

----------------------------------------------------------------------------
(* src/main.rs: get_username *)

UsernameContext == "Failed to retrieve the admin username."

\* lines 39-41: the flag is read; if it is set the metadata username is returned
GetUsernameImds ==
    /\ pc = "get_username"
    /\ LET d == is_password_authentication_disabled(imds_body)
           u == imds_get_username(imds_body) IN
        /\ ~d.ok \/ d.v
        /\ IF d.ok /\ u.some
           THEN /\ username' = u.v
                /\ pc' = "create_user"
                /\ outcome' = outcome
           ELSE /\ username' = username
                /\ pc' = "returned"
                /\ outcome' = ReturnErr(with_context(UsernameContext,
                                            <<LibErr("MissingImdsField", "")>>))
    /\ UNCHANGED <<trace, exit, stderr, libVars, imds_body, ovf_devices, dev,
                   parsed, environment, mounted, vm_goalstate, userVars>>

\* lines 46-47: media::get_mount_device()?, environment = None
GetMountDevice ==
    /\ pc = "get_username"
    /\ LET d == is_password_authentication_disabled(imds_body) IN d.ok /\ ~d.v
    /\ \/ \E n \in 0..MaxDevices :
            /\ ovf_devices' = n
            /\ dev' = 1
            /\ environment' = None
            /\ trace' = Append(trace, Event("get_mount_device", n, "", "",
                                            BackendResult(Ok, "")))
            /\ pc' = "loop"
            /\ outcome' = outcome
       \/ /\ UNCHANGED <<ovf_devices, dev, environment, userVars>>
          /\ trace' = Append(trace, Event("get_mount_device", 0, "", "",
                                          BackendResult("Io", "")))
          /\ pc' = "returned"
          /\ outcome' = ReturnErr(with_context(UsernameContext,
                                      <<LibErr("Io", ""), OtherErr("std::io::Error")>>))
    /\ UNCHANGED <<exit, stderr, libVars, imds_body, parsed, mounted, username,
                   vm_goalstate, userVars>>

\* mount_parse_ovf_env, lines 22-26: mount_media.mount()?; an Err makes the
\* loop `continue` (line 53)
Mount ==
    /\ pc = "loop"
    /\ dev <= ovf_devices
    /\ \E ok \in BOOLEAN :
        /\ trace' = Append(trace, Event("mount", dev, "", "",
                                        BackendResult(IF ok THEN Ok ELSE "Io", "")))
        /\ IF ok
           THEN mounted' = mounted \cup {dev} /\ pc' = "read_ovf_env" /\ dev' = dev
           ELSE mounted' = mounted /\ pc' = "loop" /\ dev' = dev + 1
    /\ UNCHANGED <<outcome, exit, stderr, libVars, imds_body, ovf_devices, parsed,
                   environment, username, vm_goalstate, userVars>>

\* an early return of mount_parse_ovf_env (the `?` of lines 28 and 29) drops
\* the mounted handle without calling unmount(); the handle's release is not
\* in main.rs: it is taken to unmount the medium (scoped acquisition with
\* guaranteed release), and is entered in the history as an unmount named "drop"
drop_mounted(m, d) == m \ {d}
DropEvent(d) == Event("unmount", d, "drop", "", BackendResult(Ok, ""))

\* line 28: mounted.read_ovf_env_to_string()?; on Err the loop `continue`s
ReadOvfEnv ==
    /\ pc = "read_ovf_env"
    /\ \E ok \in BOOLEAN :
        LET ev == Event("read_ovf_env", dev, "", "",
                        BackendResult(IF ok THEN Ok ELSE "Io", "")) IN
        IF ok
        THEN /\ trace' = Append(trace, ev)
             /\ pc' = "parse_ovf_env" /\ dev' = dev /\ mounted' = mounted
        ELSE /\ trace' = Append(Append(trace, ev), DropEvent(dev))
             /\ mounted' = drop_mounted(mounted, dev)
             /\ pc' = "loop" /\ dev' = dev + 1
    /\ UNCHANGED <<outcome, exit, stderr, libVars, imds_body, ovf_devices, parsed,
                   environment, username, vm_goalstate, userVars>>

\* line 29: media::parse_ovf_env(ovf_body.as_str())?
ParseOvfEnv ==
    /\ pc = "parse_ovf_env"
    /\ \/ \E env \in Environments :
            /\ parsed' = Some(env)
            /\ trace' = Append(trace, Event("parse_ovf_env", dev, env.username,
                                            env.password, BackendResult(Ok, "")))
            /\ pc' = "unmount" /\ dev' = dev /\ mounted' = mounted
       \/ /\ parsed' = parsed
          /\ trace' = Append(Append(trace,
                          Event("parse_ovf_env", dev, "", "", BackendResult("Xml", ""))),
                          DropEvent(dev))
          /\ mounted' = drop_mounted(mounted, dev)
          /\ pc' = "loop" /\ dev' = dev + 1
    /\ UNCHANGED <<outcome, exit, stderr, libVars, imds_body, ovf_devices,
                   environment, username, vm_goalstate, userVars>>

\* mutant: the Environment parsed is kept although unmount() failed
M_Unmount_keeps_environment ==
    /\ pc = "unmount"
    /\ \E ok \in BOOLEAN :
        /\ trace' = Append(trace, Event("unmount", dev, "", "",
                                        BackendResult(IF ok THEN Ok ELSE "Io", "")))
        /\ IF ok
           THEN mounted' = mounted \ {dev} /\ environment' = parsed
           ELSE mounted' = mounted /\ environment' = parsed
    /\ parsed' = None
    /\ dev' = dev + 1
    /\ pc' = "loop"
    /\ UNCHANGED <<outcome, exit, stderr, libVars, imds_body, ovf_devices,
                   username, vm_goalstate, userVars>>

\* lines 31-35 and the loop body, lines 51-54: mounted.unmount()?, then
\* Ok(environment) is stored and the loop goes on to the next device
Unmount ==
    /\ pc = "unmount"
    /\ \E ok \in BOOLEAN :
        /\ trace' = Append(trace, Event("unmount", dev, "", "",
                                        BackendResult(IF ok THEN Ok ELSE "Io", "")))
        /\ IF ok
           THEN mounted' = mounted \ {dev} /\ environment' = parsed
           ELSE mounted' = mounted /\ environment' = environment
    /\ parsed' = None
    /\ dev' = dev + 1
    /\ pc' = "loop"
    /\ UNCHANGED <<outcome, exit, stderr, libVars, imds_body, ovf_devices,
                   username, vm_goalstate, userVars>>

\* mutant: the metadata's username is preferred when it carries one
M_LoopEnd_prefers_metadata ==
    /\ pc = "loop"
    /\ dev > ovf_devices
    /\ IF environment.some
       THEN /\ username' = IF imds_get_username(imds_body).some
                            THEN imds_get_username(imds_body).v
                            ELSE environment.v.username
            /\ pc' = "create_user"
            /\ outcome' = outcome
       ELSE /\ username' = username
            /\ pc' = "returned"
            /\ outcome' = ReturnErr(with_context(UsernameContext,
                              <<OtherErr("Unable to get list of block devices")>>))
    /\ UNCHANGED <<trace, exit, stderr, libVars, imds_body, ovf_devices, dev,
                   parsed, environment, mounted, vm_goalstate, userVars>>

\* mutant: unwrap_or_default() in place of ok_or_else(..)?: without an
\* Environment the run goes on with the default (empty) username
M_LoopEnd_unwrap_or_default ==
    /\ pc = "loop"
    /\ dev > ovf_devices
    /\ username' = IF environment.some THEN environment.v.username ELSE ""
    /\ pc' = "create_user"
    /\ UNCHANGED <<trace, outcome, exit, stderr, libVars, imds_body, ovf_devices,
                   dev, parsed, environment, mounted, vm_goalstate, userVars>>

\* lines 57-63: the loop is over; ok_or_else, then the username of the
\* Environment held
LoopEnd ==
    /\ pc = "loop"
    /\ dev > ovf_devices
    /\ IF environment.some
       THEN /\ username' = environment.v.username
            /\ pc' = "create_user"
            /\ outcome' = outcome
       ELSE /\ username' = username
            /\ pc' = "returned"
            /\ outcome' = ReturnErr(with_context(UsernameContext,
                              <<OtherErr("Unable to get list of block devices")>>))
    /\ UNCHANGED <<trace, exit, stderr, libVars, imds_body, ovf_devices, dev,
                   parsed, environment, mounted, vm_goalstate, userVars>>

----------------------------------------------------------------------------
(* src/main.rs: provision(), lines 101-136 *)

\* a step of provision(): the call's event is logged; Ok goes on to `next`,
\* an error returns it under the step's context
Step(at, ev, chain, ctx, next) ==
    /\ pc = at
    /\ trace' = Append(trace, ev)
    /\ IF chain = <<>>
       THEN pc' = next /\ outcome' = outcome
       ELSE pc' = "returned" /\ outcome' = ReturnErr(with_context(ctx, chain))

\* mutant: the password of the Environment read from the medium is handed on
M_CreateUser_passes_medium_password ==
    /\ \E st1 \in CommandStatuses, st2 \in CommandStatuses :
        LET pw == IF environment.some THEN environment.v.password ELSE ""
            r == create_user(pw, st1, st2) IN
        Step("create_user", Event("create_user", 0, username, pw, r),
             IF r.err = Ok THEN <<>> ELSE <<LibErr(r.err, "")>>,
             "Unabled to create user", "create_ssh_directory")
    /\ UNCHANGED <<exit, stderr, libVars, mainVars, userVars>>

\* lines 105-107: create_user(username, "")
CreateUser ==
    /\ \E st1 \in CommandStatuses, st2 \in CommandStatuses :
        LET pw == ""
            r == create_user(pw, st1, st2) IN
        Step("create_user", Event("create_user", 0, username, pw, r),
             IF r.err = Ok THEN <<>> ELSE <<LibErr(r.err, "")>>,
             "Unabled to create user", "create_ssh_directory")
    /\ UNCHANGED <<exit, stderr, libVars, mainVars, userVars>>

\* lines 109-111: user::create_ssh_directory
CreateSshDirectory ==
    /\ \E chain \in {<<>>} \cup AccountErrors :
        Step("create_ssh_directory",
             Event("create_ssh_directory", 0, "", username,
                   BackendResult(IF chain = <<>> THEN Ok ELSE chain[1].kind, "")),
             chain, "Failed to create ssh directory.", "get_ssh_keys")
    /\ UNCHANGED <<exit, stderr, libVars, mainVars, userVars>>

\* lines 113-114: imds::get_ssh_keys
GetSshKeys ==
    /\ LET k == imds_get_ssh_keys(imds_body) IN
        Step("get_ssh_keys",
             Event("get_ssh_keys", 0, "", "",
                   BackendResult(IF k.some THEN Ok ELSE "MissingImdsField", "")),
             IF k.some THEN <<>> ELSE <<LibErr("MissingImdsField", "")>>,
             "Failed to get ssh public keys.", "set_ssh_keys")
    /\ UNCHANGED <<exit, stderr, libVars, mainVars, userVars>>

\* lines 116-120: user::set_ssh_keys
SetSshKeys ==
    /\ \E chain \in {<<>>} \cup AccountErrors :
        Step("set_ssh_keys",
             Event("set_ssh_keys", Len(imds_get_ssh_keys(imds_body).v), "", username,
                   BackendResult(IF chain = <<>> THEN Ok ELSE chain[1].kind, "")),
             chain, "Failed to write ssh public keys.", "get_hostname")
    /\ UNCHANGED <<exit, stderr, libVars, mainVars, userVars>>

\* lines 122-123: imds::get_hostname
GetHostname ==
    /\ LET h == imds_get_hostname(imds_body) IN
        Step("get_hostname",
             Event("get_hostname", 0, "", "",
                   BackendResult(IF h.some THEN Ok ELSE "MissingImdsField", "")),
             IF h.some THEN <<>> ELSE <<LibErr("MissingImdsField", "")>>,
             "Failed to get the configured hostname", "set_hostname")
    /\ UNCHANGED <<exit, stderr, libVars, mainVars, userVars>>

\* mutant: the result of set_hostname is dropped, the goal state is fetched anyway
M_SetHostname_ignores_failure ==
    /\ \E st \in CommandStatuses :
        Step("set_hostname",
             Event("set_hostname", 0, "", imds_get_hostname(imds_body).v, hostnamectl(st)),
             <<>>, "Failed to set hostname.", "get_goalstate")
    /\ UNCHANGED <<exit, stderr, libVars, mainVars, userVars>>

\* lines 125-127: set_hostname
SetHostname ==
    /\ \E st \in CommandStatuses :
        LET r == hostnamectl(st) IN
        Step("set_hostname",
             Event("set_hostname", 0, "", imds_get_hostname(imds_body).v, r),
             IF r.err = Ok THEN <<>> ELSE <<LibErr(r.err, "")>>,
             "Failed to set hostname.", "get_goalstate")
    /\ UNCHANGED <<exit, stderr, libVars, mainVars, userVars>>

\* lines 129-131: goalstate::get_goalstate
GetGoalstate ==
    /\ \/ \E g \in GoalStates :
            /\ vm_goalstate' = g
            /\ Step("get_goalstate", Event("get_goalstate", 0, "", g,
                                           BackendResult(Ok, "")),
                    <<>>, "Failed to get desired goalstate.", "report_health")
       \/ \E e \in HttpErrors :
            /\ vm_goalstate' = vm_goalstate
            /\ Step("get_goalstate", Event("get_goalstate", 0, "", "",
                                           BackendResult(e[Len(e)].kind, "")),
                    e, "Failed to get desired goalstate.", "report_health")
    /\ UNCHANGED <<exit, stderr, libVars, imds_body, ovf_devices, dev, parsed,
                   environment, mounted, username, userVars>>

\* mutant: the health report is made for a fixed incarnation, not the one fetched
M_ReportHealth_stale_goalstate ==
    /\ pc = "report_health"
    /\ \/ /\ trace' = Append(trace, Event("report_health", 0, "", "incarnation-1",
                                          BackendResult(Ok, "")))
          /\ outcome' = ReturnOk
       \/ \E e \in HttpErrors :
            /\ trace' = Append(trace, Event("report_health", 0, "", "incarnation-1",
                                            BackendResult(e[Len(e)].kind, "")))
            /\ outcome' = ReturnErr(with_context("Failed to report VM health.", e))
    /\ pc' = "returned"
    /\ UNCHANGED <<exit, stderr, libVars, mainVars, userVars>>

\* lines 132-136: goalstate::report_health, then Ok(())
ReportHealth ==
    /\ pc = "report_health"
    /\ \/ /\ trace' = Append(trace, Event("report_health", 0, "", vm_goalstate,
                                          BackendResult(Ok, "")))
          /\ outcome' = ReturnOk
       \/ \E e \in HttpErrors :
            /\ trace' = Append(trace, Event("report_health", 0, "", vm_goalstate,
                                            BackendResult(e[Len(e)].kind, "")))
            /\ outcome' = ReturnErr(with_context("Failed to report VM health.", e))
    /\ pc' = "returned"
    /\ UNCHANGED <<exit, stderr, libVars, mainVars, userVars>>

----------------------------------------------------------------------------
(* src/main.rs: main *)

\* mutant: the outermost layer of the chain is matched, not the root cause
M_root_cause_outermost(e) == e[1]

\* e.root_cause(): the innermost error of the chain
root_cause(e) == e[Len(e)]

\* e.root_cause().downcast_ref::<LibError>(): Some for a library Error
downcast_ref(layer) == IF layer.lib THEN Some(layer) ELSE None

\* the match of main(), lines 69-84
exit_code(result) ==
    IF result.ok THEN SUCCESS
    ELSE LET e == downcast_ref(root_cause(result.err)) IN
         IF e.some /\ e.v.kind = "UserMissing" THEN CONFIG
         ELSE IF e.some /\ e.v.kind = "NonEmptyPassword" THEN CONFIG
         ELSE FAILURE

\* main(): the result of provision() is matched; an error is printed first
main ==
    /\ pc = "returned"
    /\ outcome.done
    /\ stderr' = IF outcome.ok THEN stderr ELSE Append(stderr, outcome.err)
    /\ exit' = <<exit_code(outcome)>>
    /\ pc' = "exited"
    /\ UNCHANGED <<trace, outcome, libVars, mainVars, userVars>>

----------------------------------------------------------------------------
Init ==
    /\ pc = "start"
    /\ req = DefaultProvision
    /\ i = 1
    /\ trace = <<>>
    /\ outcome = Running
    /\ exit = <<>>
    /\ stderr = <<>>
    /\ imds_body = NoBody
    /\ ovf_devices = 0
    /\ dev = 1
    /\ parsed = None
    /\ environment = None
    /\ mounted = {}
    /\ username = ""
    /\ vm_goalstate = ""
    /\ user_cfg = NoUser
    /\ debug_out = <<>>

Build ==
    \/ \E h \in Hostnames, u \in Usernames, k \in KeyLists : New(h, u, k)
    \/ \E b \in BackendLists(Range(HostnameProvisioners)) : hostname_provisioners(b)
    \/ \E b \in BackendLists(Range(UserProvisioners)) : user_provisioners(b)
    \/ \E b \in BackendLists(Range(PasswordProvisioners)) : password_provisioners(b)
    \/ \E p \in Passwords : password(p)

\* the User value: construction, the builder methods, Debug
UserNext ==
    \/ \E n \in Usernames, k \in KeyLists : UserNew(n, k)
    \/ \E p \in UserPasswords : with_password(p)
    \/ \E g \in GroupLists : with_groups(g)
    \/ DebugUser

Next ==
    \/ Build
    \/ UserNext
    \/ ProvisionEnter
    \/ UserAttempt
    \/ UserExhausted
    \/ PasswordAttempt
    \/ PasswordExhausted
    \/ FromName
    \/ ProvisionSsh
    \/ HostnameAttempt
    \/ HostnameExhausted
    \/ BuildClient
    \/ QueryImds
    \/ GetUsernameImds
    \/ GetMountDevice
    \/ Mount
    \/ ReadOvfEnv
    \/ ParseOvfEnv
    \/ Unmount
    \/ LoopEnd
    \/ CreateUser
    \/ CreateSshDirectory
    \/ GetSshKeys
    \/ SetSshKeys
    \/ GetHostname
    \/ SetHostname
    \/ GetGoalstate
    \/ ReportHealth
    \/ main

Spec == Init /\ [][Next]_vars

----------------------------------------------------------------------------
(* main()'s match as a function of the result it is given: provision() has
   returned any Result, Ok or an error chain of up to MaxContext layers
   around a root cause *)

RootCauses ==
    {LibErr("UserMissing", u) : u \in {"azureuser", "my-user"}}
    \cup {LibErr(k, "") : k \in {"NonEmptyPassword", "NoUserProvisioner",
                                 "NoPasswordProvisioner", "NoHostnameProvisioner",
                                 "SubprocessFailed"}}
    \cup {OtherErr("std::io::Error"), OtherErr("reqwest::Error"),
          OtherErr("Unable to get list of block devices")}
OuterLayers ==
    {OtherErr(UsernameContext), OtherErr("Failed to write ssh public keys."),
     LibErr("Io", "")}
Results ==
    {ReturnOk} \cup
    {ReturnErr(c \o <<r>>) :
        c \in UNION {[1..n -> OuterLayers] : n \in 0..MaxContext}, r \in RootCauses}

InitExit ==
    /\ pc = "returned"
    /\ outcome \in Results
    /\ req = DefaultProvision
    /\ i = 1
    /\ trace = <<>>
    /\ exit = <<>>
    /\ stderr = <<>>
    /\ imds_body = NoBody
    /\ ovf_devices = 0
    /\ dev = 1
    /\ parsed = None
    /\ environment = None
    /\ mounted = {}
    /\ username = ""
    /\ vm_goalstate = ""
    /\ user_cfg = NoUser
    /\ debug_out = <<>>

NextExit == main

SpecExit == InitExit /\ [][NextExit]_vars

----------------------------------------------------------------------------
(* Reading the history *)

\* the entries of the history made by operation op, in order
Attempts(op) == SelectSeq(trace, LAMBDA e : e.op = op)
\* the places of the history where one of the operations ops was made
Places(ops) == {k \in 1..Len(trace) : trace[k].op \in ops}
Succeeded(op) == \E k \in Places({op}) : trace[k].err = Ok

\* a Provision value has been made: the run is one of the library's
InLibrary == req # DefaultProvision

Resources == {"user", "password", "hostname"}
\* the list the caller asked for, per resource: the list given, or every
\* variant in declaration order when none was given
Requested(r) ==
    IF r = "user"
    THEN (IF req.user_backends.some THEN req.user_backends.v
          ELSE <<"Useradd", "FakeUseradd">>)
    ELSE IF r = "password"
    THEN (IF req.password_backends.some THEN req.password_backends.v
          ELSE <<"Passwd", "FakePasswd">>)
    ELSE (IF req.hostname_backends.some THEN req.hostname_backends.v
          ELSE <<"Hostnamectl", "FakeHostnamectl">>)
\* every backend of resource r's list has been tried and has failed
AllFailed(r) ==
    /\ Len(Attempts(r)) = Len(Requested(r))
    /\ \A k \in 1..Len(Attempts(r)) : Attempts(r)[k].err # Ok

----------------------------------------------------------------------------
(* C1 *)

\* C1: per resource, the backends tried so far are a prefix of the effective
\* list (the caller's list, or the default enumeration when it is None), the
\* k-th call made is the call of the list's k-th backend, each made once, and
\* only the last call made can have succeeded: nothing is called after the
\* first success.
C1_BackendsInListOrder ==
    \A r \in Resources :
        LET a == Attempts(r) IN
        /\ Len(a) <= Len(Requested(r))
        /\ \A k \in 1..Len(a) :
            /\ a[k].idx = k
            /\ a[k].name = Requested(r)[k]
            /\ (k < Len(a) => a[k].err # Ok)

\* the second backend of the default user list and the second backend of a
\* caller-given password list were each the first to succeed
C1_Witness ==
    /\ ~req.user_backends.some
    /\ Len(Attempts("user")) = 2 /\ Attempts("user")[2].err = Ok
    /\ req.password_backends = Some(<<"Passwd", "FakePasswd">>)
    /\ Len(Attempts("password")) = 2 /\ Attempts("password")[2].err = Ok
    /\ Attempts("password")[1].err = "SubprocessFailed"

----------------------------------------------------------------------------
(* C2 *)

NoProvisioner(kind) == ReturnErr(<<LibErr(kind, "")>>)

\* C2: once Provision::provision() has returned: if every user backend failed
\* it returned NoUserProvisioner and nothing but user backends ran; if the user
\* step succeeded and every password backend failed it returned
\* NoPasswordProvisioner and no account lookup, key installation or hostname
\* backend ran; if the hostname step was reached and every hostname backend
\* failed it returned NoHostnameProvisioner.
C2_ExhaustionError ==
    (InLibrary /\ outcome.done) =>
        /\ AllFailed("user") =>
            /\ outcome = NoProvisioner("NoUserProvisioner")
            /\ Places({"password", "from_name", "provision_ssh", "hostname"}) = {}
        /\ (Succeeded("user") /\ AllFailed("password")) =>
            /\ outcome = NoProvisioner("NoPasswordProvisioner")
            /\ Places({"from_name", "provision_ssh", "hostname"}) = {}
        /\ (/\ Succeeded("password")
            /\ (req.keys = <<>> \/ Succeeded("provision_ssh"))
            /\ AllFailed("hostname")) =>
            outcome = NoProvisioner("NoHostnameProvisioner")

\* two password backends were tried, both failed, and provision() returned
C2_Witness ==
    /\ InLibrary /\ outcome.done
    /\ Succeeded("user")
    /\ Len(Attempts("password")) = 2 /\ AllFailed("password")
    /\ req.keys # <<>>

----------------------------------------------------------------------------
(* C3 *)

UserOps == {"user", "create_user"}
PasswordOps == {"password"}
SshOps == {"from_name", "provision_ssh", "create_ssh_directory", "set_ssh_keys"}
HostnameOps == {"hostname", "set_hostname"}
\* the operation that ends the SSH-key step
SshDone == {"provision_ssh", "set_ssh_keys"}

OkBefore(ops, k) == \E j \in 1..(k - 1) : trace[j].op \in ops /\ trace[j].err = Ok
NoneBefore(ops, k) == \A j \in 1..(k - 1) : trace[j].op \notin ops

\* C3: in the history of every run, of the library and of the binary alike,
\* no user operation follows a password, SSH-key or hostname operation, no
\* password operation follows an SSH-key or hostname operation, no SSH-key
\* operation follows a hostname operation; a password operation has a
\* successful user creation before it, an SSH-key operation has a successful
\* user creation and (in the library) a successful password operation before
\* it, and a hostname operation has them too and, if any SSH-key operation was
\* made or the request has keys, a successfully finished SSH-key step.
C3_StepOrder ==
    \A k \in 1..Len(trace) :
        LET op == trace[k].op IN
        /\ op \in UserOps => NoneBefore(PasswordOps \cup SshOps \cup HostnameOps, k)
        /\ op \in PasswordOps =>
            /\ NoneBefore(SshOps \cup HostnameOps, k)
            /\ OkBefore(UserOps, k)
        /\ op \in SshOps =>
            /\ NoneBefore(HostnameOps, k)
            /\ OkBefore(UserOps, k)
            /\ InLibrary => OkBefore(PasswordOps, k)
        /\ op \in HostnameOps =>
            /\ OkBefore(UserOps, k)
            /\ InLibrary => OkBefore(PasswordOps, k)
            /\ (~NoneBefore(SshOps, k) \/ (InLibrary /\ req.keys # <<>>) \/ ~InLibrary)
                => OkBefore(SshDone, k)

\* a library run that made all four steps, the user step at its second backend
C3_Witness ==
    /\ InLibrary
    /\ Len(Attempts("user")) = 2
    /\ Succeeded("password")
    /\ Succeeded("provision_ssh")
    /\ Attempts("hostname") # <<>>

----------------------------------------------------------------------------
(* C4 *)

\* C4: in the binary's run, a goal-state fetch or a health report is made only
\* after a successful user creation, a successful SSH directory creation, a
\* successful key installation and a successful hostname setting, and with no
\* failed host-mutation operation before it.
C4_ReportAfterMutations ==
    \A k \in Places({"get_goalstate", "report_health"}) :
        /\ OkBefore({"create_user"}, k)
        /\ OkBefore({"create_ssh_directory"}, k)
        /\ OkBefore({"set_ssh_keys"}, k)
        /\ OkBefore({"set_hostname"}, k)
        /\ \A j \in 1..(k - 1) :
            trace[j].op \in UserOps \cup SshOps \cup HostnameOps => trace[j].err = Ok

\* a health report was submitted in a run that resolved the username on a medium
C4_Witness ==
    /\ Places({"report_health"}) # {}
    /\ Places({"mount"}) # {}
    /\ outcome = ReturnOk

----------------------------------------------------------------------------
(* C5 *)

\* mount_parse_ovf_env returned Ok for candidate d: it was parsed and its
\* unmount call succeeded
CandidateOk(d) ==
    \E k \in Places({"unmount"}) :
        trace[k].idx = d /\ trace[k].name = "" /\ trace[k].err = Ok
\* the first candidate, in enumeration order, that yielded an Environment
FirstOk == CHOOSE d \in 1..ovf_devices : CandidateOk(d) /\ \A c \in 1..(d - 1) : ~CandidateOk(c)
\* the username of the Environment parsed from candidate d
ParsedUsername(d) ==
    LET k == CHOOSE p \in Places({"parse_ovf_env"}) : trace[p].idx = d IN trace[k].name

\* C5: no candidate is mounted after a candidate has been mounted, parsed and
\* unmounted successfully, and the Environment held for the username is the one
\* of the first candidate that yielded one.
C5_ShortCircuit ==
    /\ \A j \in Places({"unmount"}), k \in Places({"mount"}) :
        (trace[j].name = "" /\ trace[j].err = Ok) => k < j
    /\ environment.some => environment.v.username = ParsedUsername(FirstOk)

----------------------------------------------------------------------------
(* C6 *)

\* get_username has left the loop over the candidates
ResolverReturned ==
    /\ Places({"get_mount_device"}) # {}
    /\ pc \notin {"loop", "read_ovf_env", "parse_ovf_env", "unmount"}

\* C6: a mounted candidate is unmounted before any other candidate is mounted;
\* and when the resolver has returned with its first success at candidate j,
\* every mount and unmount call having succeeded, exactly j mounts and exactly
\* j unmounts were made and nothing is left mounted.
C6_MountUnmountBalanced ==
    /\ \A j \in Places({"mount"}), k \in Places({"mount"}) :
        (j < k /\ trace[j].err = Ok) =>
            \E u \in Places({"unmount"}) : j < u /\ u < k /\ trace[u].idx = trace[j].idx
    /\ (/\ ResolverReturned
        /\ \E d \in 1..ovf_devices : CandidateOk(d)
        /\ \A k \in Places({"mount", "unmount"}) : trace[k].err = Ok) =>
            /\ Cardinality(Places({"mount"})) = FirstOk
            /\ Cardinality(Places({"unmount"})) = FirstOk
            /\ mounted = {}

----------------------------------------------------------------------------
(* C7 *)

\* C7 as claimed: every password-backend call with a non-empty password fails
\* with NonEmptyPassword and runs no command, and the passwd command is run
\* only with the empty password.
C7_NonEmptyAlwaysRejected ==
    /\ \A k \in Places({"password"}) :
        trace[k].arg # "" => (trace[k].err = "NonEmptyPassword" /\ trace[k].cmd = "")
    /\ \A k \in 1..Len(trace) : trace[k].cmd = "passwd" => trace[k].arg = ""

\* C7, amended: a password-backend call with a non-empty password runs no
\* command; made on the Passwd backend it fails with NonEmptyPassword, made on
\* the test-only FakePasswd backend it succeeds; and the passwd command is run
\* only with the empty password.
C7_PasswdRejectsNonEmpty ==
    /\ \A k \in Places({"password"}) :
        trace[k].arg # "" =>
            /\ trace[k].cmd = ""
            /\ trace[k].name = "Passwd" => trace[k].err = "NonEmptyPassword"
            /\ trace[k].name = "FakePasswd" => trace[k].err = Ok
    /\ \A k \in 1..Len(trace) : trace[k].cmd = "passwd" => trace[k].arg = ""

\* the Passwd backend was called with a non-empty password, and in the same
\* run the FakePasswd backend after it
C7_Witness ==
    /\ Len(Attempts("password")) = 2
    /\ Attempts("password")[1].name = "Passwd"
    /\ Attempts("password")[1].arg = "password"
    /\ Attempts("password")[2].name = "FakePasswd"

----------------------------------------------------------------------------
(* C8 *)

\* C8: when main() has returned, the exit code is 0 exactly if provision()
\* returned Ok, the configuration-error code exactly if it returned an error
\* whose root cause is the library's UserMissing or NonEmptyPassword, and the
\* generic failure code exactly in every other case.
C8_ExitCodeOfOutcome ==
    pc = "exited" =>
        LET config ==
                IF outcome.ok THEN FALSE
                ELSE LET root == outcome.err[Len(outcome.err)] IN
                     root.lib /\ root.kind \in {"UserMissing", "NonEmptyPassword"} IN
        /\ Len(exit) = 1
        /\ exit[1] = SUCCESS <=> outcome.ok
        /\ exit[1] = CONFIG <=> config
        /\ exit[1] = FAILURE <=> (~outcome.ok /\ ~config)

\* a NonEmptyPassword root cause under two context layers was mapped
C8_Witness ==
    /\ pc = "exited"
    /\ Len(outcome.err) = 3
    /\ outcome.err[3] = LibErr("NonEmptyPassword", "")
    /\ exit = <<CONFIG>>

----------------------------------------------------------------------------
(* C9 *)

\* C9: a library run with a non-empty password whose password backends are all
\* the Passwd strategy, and which reached the password step, ends with
\* NonEmptyPassword as the error handed to main() and with the
\* configuration-error exit code.
C9_NonEmptyPasswordExitsConfig ==
    (/\ InLibrary
     /\ pc = "exited"
     /\ req.password.some /\ req.password.v # ""
     /\ Range(Requested("password")) = {"Passwd"}
     /\ Places({"password"}) # {}) =>
        /\ outcome.err = <<LibErr("NonEmptyPassword", "")>>
        /\ exit = <<CONFIG>>

----------------------------------------------------------------------------
(* C10 *)

\* C10: in the library, an account lookup or key installation is made only for
\* a request with keys, and once the hostname step is reached the lookup has
\* been made exactly if the request has keys; in the binary, no SSH directory
\* or key-file operation is made when the metadata's key list is empty.
C10_SshOnlyWithKeys ==
    /\ InLibrary =>
        /\ Places({"from_name", "provision_ssh"}) # {} => req.keys # <<>>
        /\ (pc = "hostname" \/ Places({"hostname"}) # {}) =>
            (Places({"from_name"}) # {} <=> req.keys # <<>>)
    /\ (~InLibrary /\ imds_body.publicKeys = Some(<<>>)) =>
        Places({"create_ssh_directory", "set_ssh_keys"}) = {}

----------------------------------------------------------------------------
(* C11 *)

MediaOps == {"get_mount_device", "mount", "read_ovf_env", "parse_ovf_env", "unmount"}
\* the metadata flag as the binary read it
FlagIs(v) == ~InLibrary /\ imds_body.disablePasswordAuthentication = v

\* C11: in the binary's run, when the metadata says password authentication is
\* disabled no medium is ever enumerated or mounted and the username resolved
\* is the metadata's; when it says not disabled, the username resolved is the
\* one of an Environment parsed from a candidate that succeeded, the one held
\* in `environment`, whatever username the metadata carries.
C11_SourceFollowsFlag ==
    /\ FlagIs("true") =>
        /\ Places(MediaOps) = {}
        /\ username # "" => (imds_body.username.some /\ username = imds_body.username.v)
    /\ (FlagIs("false") /\ username # "") =>
        /\ environment.some /\ username = environment.v.username
        /\ \E d \in 1..ovf_devices : CandidateOk(d) /\ ParsedUsername(d) = username

\* the medium's username was taken although the metadata carries another one
C11_Witness ==
    /\ FlagIs("false")
    /\ imds_body.username = Some("azureuser")
    /\ username = "my-user"

----------------------------------------------------------------------------
(* C12 *)

\* C12: in the binary's run with password authentication not disabled, as long
\* as no candidate has yielded an Environment no user-creation, SSH, hostname
\* or goal-state operation has been made, and if the process has exited then
\* with the generic failure code.
C12_NoMediumNoProvisioning ==
    (FlagIs("false") /\ ~\E d \in 1..ovf_devices : CandidateOk(d)) =>
        /\ Places({"create_user", "create_ssh_directory", "set_ssh_keys",
                   "set_hostname", "get_goalstate", "report_health"}) = {}
        /\ pc = "exited" => exit = <<FAILURE>>

\* two candidates were tried, one of them parsed, none succeeded, and the
\* process has exited
C12_Witness ==
    /\ FlagIs("false")
    /\ pc = "exited"
    /\ ovf_devices = 2
    /\ Cardinality(Places({"mount"})) = 2
    /\ \E k \in Places({"parse_ovf_env"}) : trace[k].err = Ok
    /\ ~\E d \in 1..ovf_devices : CandidateOk(d)

----------------------------------------------------------------------------
(* C13 *)

\* C13: in a library run whose account lookup found no such user, the user and
\* password steps had succeeded and the request has keys, provision() has
\* returned UserMissing naming the requested username, no key installation and
\* no hostname backend call has been made, and if the process has exited then
\* with the configuration-error code; and in the binary's run, an SSH
\* operation that failed with UserMissing is the last operation made, no key
\* was installed and no hostname was set, and the exit code is the
\* configuration-error code.
C13_UserMissingExitsConfig ==
    /\ \A k \in Places({"from_name"}) :
        trace[k].err = "UserMissing" =>
            /\ Succeeded("user") /\ Succeeded("password") /\ req.keys # <<>>
            /\ outcome = ReturnErr(<<LibErr("UserMissing", req.username)>>)
            /\ Places({"provision_ssh", "hostname"}) = {}
            /\ k = Len(trace)
            /\ pc = "exited" => exit = <<CONFIG>>
    /\ \A k \in Places({"create_ssh_directory", "set_ssh_keys"}) :
        trace[k].err = "UserMissing" =>
            /\ Succeeded("create_user")
            /\ k = Len(trace)
            /\ ~Succeeded("set_ssh_keys")
            /\ Places({"set_hostname"}) = {}
            /\ pc = "exited" => exit = <<CONFIG>>

\* the lookup found no user after the second user backend and the first
\* password backend succeeded, with one key, and the process has exited
C13_Witness ==
    /\ InLibrary /\ pc = "exited"
    /\ Len(req.keys) = 1
    /\ Len(Attempts("user")) = 2 /\ Succeeded("user")
    /\ Len(Attempts("password")) = 1 /\ Succeeded("password")
    /\ \E k \in Places({"from_name"}) : trace[k].err = "UserMissing"

----------------------------------------------------------------------------
(* C14 *)

\* C14: in every run, get_goalstate is called at most once and report_health
\* at most once; a report_health call has a successful get_goalstate call
\* before it and carries exactly the goal state that call returned; and a
\* failed call of either is the last operation of the run, whose result is an
\* error and whose exit code, once the process has exited, is not the success
\* code.
C14_GoalstateHandshake ==
    /\ Cardinality(Places({"get_goalstate"})) <= 1
    /\ Cardinality(Places({"report_health"})) <= 1
    /\ \A k \in Places({"report_health"}) :
        \E j \in Places({"get_goalstate"}) :
            /\ j < k
            /\ trace[j].err = Ok
            /\ trace[k].arg = trace[j].arg
    /\ \A k \in Places({"get_goalstate", "report_health"}) :
        trace[k].err # Ok =>
            /\ k = Len(trace)
            /\ outcome.done /\ ~outcome.ok
            /\ pc = "exited" => (exit # <<SUCCESS>> /\ exit = <<FAILURE>>)

\* the second incarnation was fetched and the report made for it failed
C14_Witness ==
    /\ pc = "exited"
    /\ \E j \in Places({"get_goalstate"}) : trace[j].arg = "incarnation-2"
    /\ \E k \in Places({"report_health"}) :
        trace[k].arg = "incarnation-2" /\ trace[k].err # Ok

----------------------------------------------------------------------------
(* C15 *)

\* two User values that both have a password set and are equal in every other
\* field
DifferOnlyInPasswordContent(u, v) ==
    /\ u.name = v.name /\ u.groups = v.groups /\ u.ssh_keys = v.ssh_keys
    /\ u.password.some /\ v.password.some
\* the non-empty passwords in play in the run: the request's, the medium's
Secrets ==
    (IF req.password.some THEN {req.password.v} ELSE {})
        \cup (IF environment.some THEN {environment.v.password} ELSE {})
        \cup (IF parsed.some THEN {parsed.v.password} ELSE {})
\* the texts a layer of an error chain is rendered from
LayerTexts(l) == {l.kind, l.user}

\* C15: any two Debug renderings made of User values that differ only in the
\* content of a set password are identical; the password field of a rendering
\* is the Debug of a bool, true exactly if a password is set; and no layer of
\* an error chain written to the error stream carries a non-empty password
\* of the run.
C15_DebugHidesPassword ==
    /\ \A a \in 1..Len(debug_out), b \in 1..Len(debug_out) :
        DifferOnlyInPasswordContent(debug_out[a].of, debug_out[b].of)
            => debug_out[a].text = debug_out[b].text
    /\ \A a \in 1..Len(debug_out) :
        debug_out[a].text.password = debug_bool(debug_out[a].of.password.some)
    /\ \A k \in 1..Len(stderr) : \A n \in 1..Len(stderr[k]) :
        LayerTexts(stderr[k][n]) \cap (Secrets \ {""}) = {}

\* the same User was rendered with the password "password" and, after
\* with_password("hunter2"), rendered again
C15_Witness ==
    /\ Len(debug_out) = 2
    /\ debug_out[1].of.password = Some("password")
    /\ debug_out[2].of.password = Some("hunter2")
    /\ debug_out[1].of.name = debug_out[2].of.name
    /\ debug_out[1].of.groups = debug_out[2].of.groups
    /\ debug_out[1].of.ssh_keys = debug_out[2].of.ssh_keys

----------------------------------------------------------------------------
(* C16 *)

\* the backend of resource r that succeeds whatever it is called with
AlwaysSucceeds(r) ==
    IF r = "user" THEN "FakeUseradd"
    ELSE IF r = "password" THEN "FakePasswd" ELSE "FakeHostnamectl"
\* the successful backend calls made for resource r
Successes(r) == {k \in Places({r}) : trace[k].err = Ok}

\* C16: a library run whose request has no keys and whose effective list, for
\* each of the three resources, holds a backend that succeeds, has, once
\* provision() returned, returned Ok(()) with exactly one successful backend
\* call per resource and no account lookup or key installation, whether the
\* request carries no password, the empty password or a non-empty one.
C16_SuccessfulProvision ==
    (/\ InLibrary /\ outcome.done
     /\ req.keys = <<>>
     /\ \A r \in Resources : AlwaysSucceeds(r) \in Range(Requested(r))) =>
        /\ outcome = ReturnOk
        /\ \A r \in Resources : Cardinality(Successes(r)) = 1
        /\ Places({"from_name", "provision_ssh"}) = {}

\* test_successful_provision: one fake backend per resource, the password
\* "password", no keys, and provision() returned Ok(())
C16_Witness ==
    /\ req.hostname_backends = Some(<<"FakeHostnamectl">>)
    /\ req.user_backends = Some(<<"FakeUseradd">>)
    /\ req.password_backends = Some(<<"FakePasswd">>)
    /\ req.password = Some("password")
    /\ req.keys = <<>>
    /\ outcome = ReturnOk
    /\ Len(trace) = 3

----------------------------------------------------------------------------
(* C17 *)

----------------------------------------------------------------------------
(* C18 *)

\* the operations of the binary that change the host
HostMutations == {"create_user", "create_ssh_directory", "set_ssh_keys", "set_hostname"}
\* the non-empty password of the Environment the binary holds, if any
MediumPassword == IF environment.some THEN {environment.v.password} \ {""} ELSE {}

\* C18: in the binary's run every user creation is handed the empty password,
\* whether the username came from the metadata or from a medium whose
\* Environment carries a non-empty password, it never fails with
\* NonEmptyPassword, and no host-changing operation is handed the medium's
\* password.
C18_EmptyPasswordToCreateUser ==
    /\ \A k \in Places({"create_user"}) :
        trace[k].arg = "" /\ trace[k].err # "NonEmptyPassword"
    /\ \A k \in Places(HostMutations) : trace[k].arg \notin MediumPassword

\* the Environment read from the medium carries the password "password" and
\* the user was created, the passwd command having run
C18_Witness ==
    /\ environment.some /\ environment.v.password = "password"
    /\ username = environment.v.username
    /\ \E k \in Places({"create_user"}) : trace[k].err = Ok /\ trace[k].cmd = "passwd"

----------------------------------------------------------------------------
(* C19 *)

\* the backend list as the caller set it on the request, per resource
ListGiven(r) ==
    IF r = "user" THEN req.user_backends
    ELSE IF r = "password" THEN req.password_backends ELSE req.hostname_backends
\* the error of resource r's exhausted list
ExhaustedError(r) ==
    IF r = "user" THEN NoProvisioner("NoUserProvisioner")
    ELSE IF r = "password" THEN NoProvisioner("NoPasswordProvisioner")
    ELSE NoProvisioner("NoHostnameProvisioner")
\* provision() has got as far as resource r's step
StepReached(r) ==
    IF r = "user" THEN pc # "built"
    ELSE IF r = "password" THEN Succeeded("user")
    ELSE Succeeded("password") /\ (req.keys = <<>> \/ Succeeded("provision_ssh"))

\* C19: in a library run whose request was given the empty list for a
\* resource, no backend of that resource is ever called, and once provision()
\* has returned after reaching that resource's step it returned the resource's
\* No*Provisioner error.
C19_EmptyListIsNotDefault ==
    InLibrary =>
        \A r \in Resources :
            ListGiven(r) = Some(<<>>) =>
                /\ Places({r}) = {}
                /\ (outcome.done /\ StepReached(r)) => outcome = ExhaustedError(r)

\* the password list was set to the empty list, the user step succeeded, and
\* provision() returned NoPasswordProvisioner without a password backend call
C19_Witness ==
    /\ InLibrary
    /\ req.password_backends = Some(<<>>)
    /\ Succeeded("user")
    /\ Places({"password"}) = {}
    /\ outcome = NoProvisioner("NoPasswordProvisioner")

----------------------------------------------------------------------------
(* C20 *)

\* the places of the unmount() calls of mount_parse_ovf_env that failed
FailedUnmounts == {k \in Places({"unmount"}) : trace[k].name = "" /\ trace[k].err # Ok}
\* the Environment the parse of candidate d returned
ParsedEnvironment(d) ==
    LET k == CHOOSE p \in Places({"parse_ovf_env"}) : trace[p].idx = d IN
    [username |-> trace[k].name, password |-> trace[k].arg]
\* the error get_username returns when the loop ends without an Environment
NoEnvironment ==
    ReturnErr(with_context(UsernameContext,
                           <<OtherErr("Unable to get list of block devices")>>))

\* C20: a candidate whose unmount() failed was parsed successfully and is not
\* a candidate that succeeded; the loop goes on after it: the next medium
\* operation, if any, is the mount of the next candidate; the Environment
\* parsed is not kept outside the call, and the Environment held is always one
\* parsed from a candidate that succeeded; and when the resolver has returned after enumerating the candidates with no
\* candidate having succeeded, it returned the "Unable to get list of block
\* devices" error.
C20_FailedUnmountFailsCandidate ==
    /\ \A k \in FailedUnmounts :
        LET d == trace[k].idx IN
        /\ \E p \in Places({"parse_ovf_env"}) :
            p < k /\ trace[p].idx = d /\ trace[p].err = Ok
        /\ ~CandidateOk(d)
        /\ dev > d
        /\ (k < Len(trace) /\ trace[k + 1].op \in MediaOps) =>
            (trace[k + 1].op = "mount" /\ trace[k + 1].idx = d + 1)
    /\ pc # "unmount" => parsed = None
    /\ environment.some =>
        \E d \in 1..ovf_devices : CandidateOk(d) /\ environment.v = ParsedEnvironment(d)
    /\ (/\ ResolverReturned
        /\ Succeeded("get_mount_device")
        /\ ~\E d \in 1..ovf_devices : CandidateOk(d)) =>
            outcome = NoEnvironment

\* the only candidate was mounted and parsed, its unmount failed, and the
\* resolver returned the error
C20_Witness ==
    /\ ovf_devices = 1
    /\ \E p \in Places({"parse_ovf_env"}) : trace[p].idx = 1 /\ trace[p].err = Ok
    /\ \E k \in FailedUnmounts : trace[k].idx = 1
    /\ outcome = NoEnvironment
    /\ pc = "exited"

====
